---- MODULE Spec2Model ----
(***************************************************************************)
(* WMATA pass analysis: the ride-reconstruction and fare engine.           *)
(*                                                                         *)
(* Two versions of the engine live in the repository:                      *)
(*   src/unnamed/part_000       (gate aliases, timestamps, Farragut        *)
(*                               Crossing transfer)   -- unsuffixed names  *)
(*   src/src/lib/calculator.ts  (no transfer rule)    -- names in _lib     *)
(*                                                                         *)
(* Money is in cents.  A Date is the number of minutes since Sunday 00:00  *)
(* local time of the week of the log, or NaN for an Invalid Date.          *)
(***************************************************************************)
EXTENDS Integers, Sequences, FiniteSets, TLC

VARIABLES
    impl,       \* which engine runs: "part_000" or "lib"
    pc,         \* position in calculatePassSavings / the classifier run
    csv,        \* the uploaded log: a sequence of lines, each a sequence of fields
    rows,       \* parseCSV's result
    i,          \* loop index of the running loop of createRides (1-based)
    rides,      \* createRides: the working array `rides`
    newRides,   \* createRides: the array `newRides` (part_000)
    result,     \* calculatePassSavings' return value, NoResult before it returns
    passCost,   \* argument of calculatePassSavings
    passLimit,  \* argument of calculatePassSavings
    date,       \* the Date handed to the peak classifier
    peak,       \* isPeak's answer in part_000
    peak_lib,   \* isPeak's answer in lib/calculator.ts
    rides0,     \* history: `rides` as the first loop of createRides left it
    ids,        \* history: for each element of `rides`, its index in rides0
    emitted,    \* history: for each element of newRides, <<index in rides0 of
                \* the ride pushed, index in rides0 of the ride spliced out or 0>>
    step,       \* +page.svelte: the wizard's step, 1..4
    loading,    \* +page.svelte: step 4 shows "Calculating..."
    files,      \* +page.svelte: the file input's FileList, or null
    csvData,    \* +page.svelte: the validated file content, NoData for null
    fileValid,  \* +page.svelte
    pass,       \* +page.svelte: the selected pass name, "" for none
    breakEven,  \* +page.svelte
    savings_page, \* +page.svelte: `savings`
    readers,    \* the FileReaders whose onload has not fired: file name -> how many
    lastCall    \* history: the last call of calculatePassSavings by the analysis
                \* effect: the csvData passed and `files` at that moment

engineVars == <<impl, pc, csv, rows, i, rides, newRides, result, passCost, passLimit,
                date, peak, peak_lib, rides0, ids, emitted>>

wizardVars == <<step, loading, files, csvData, fileValid, pass, breakEven, savings_page,
                readers, lastCall>>

vars == <<engineVars, wizardVars>>

(***************************************************************************)
(* Bounds of the model.                                                    *)
(***************************************************************************)
MaxRows == 3

(***************************************************************************)
(* Dates.                                                                  *)
(***************************************************************************)
NaN == -1
Undefined == -2
Infinity == -3
MinutesPerDay == 1440
DaysPerWeek == 7

getDay(d) == (d \div MinutesPerDay) % DaysPerWeek
getHours(d) == (d % MinutesPerDay) \div 60
getMinutes(d) == d % 60

\* The card-usage export prints "MM/DD/YY HH:MM AM/PM"; 06/01/25 is a Sunday.
Clock ==
    ("06/03/25 04:29 AM" :> 2 * MinutesPerDay + 4 * 60 + 29) @@
    ("06/03/25 04:59 AM" :> 2 * MinutesPerDay + 4 * 60 + 59) @@
    ("06/03/25 05:00 AM" :> 2 * MinutesPerDay + 5 * 60)

\* new Date(time): the local date and time the text names, an Invalid Date
\* for any other text.
Date(time) == IF time \in DOMAIN Clock THEN Clock[time] ELSE NaN

\* d.getTime() difference in minutes; NaN when either Date is invalid.
MinutesBetween(later, earlier) ==
    IF later = NaN \/ earlier = NaN THEN NaN ELSE later - earlier

\* Mutant: the scan gives up at 30 minutes already.
MoreThan30_early(x) == x # NaN /\ x >= 30

\* x > 30 on a JavaScript number: false for NaN.
MoreThan30(x) == x # NaN /\ x > 30

(***************************************************************************)
(* Peak classifier.                                                        *)
(***************************************************************************)
\* part_000: weekday test, then (hour >= 5 && hour < 21) || (hour === 21 && minute < 30)
isPeakDate(d) ==
    IF d = NaN THEN FALSE
    ELSE LET weekday == getDay(d)
             hour == getHours(d)
             minute == getMinutes(d)
         IN  /\ weekday >= 1 /\ weekday <= 5
             /\ ((hour >= 5 /\ hour < 21) \/ (hour = 21 /\ minute < 30))

isPeak(time) == isPeakDate(Date(time))

\* lib/calculator.ts: hour >= 5 || hour < 21 || (hour === 21 && minute < 30)
isPeakDate_lib(d) ==
    IF d = NaN THEN FALSE
    ELSE LET weekday == getDay(d)
             hour == getHours(d)
             minute == getMinutes(d)
         IN  /\ weekday >= 1 /\ weekday <= 5
             /\ (hour >= 5 \/ hour < 21 \/ (hour = 21 /\ minute < 30))

isPeak_lib(time) == isPeakDate_lib(Date(time))

(***************************************************************************)
(* Reference data.  rail_fares.json, station_codes.json and                *)
(* gate_station.json are generated files; the tables below are a small     *)
(* excerpt with the real station codes, every fare different from every    *)
(* other so that a wrong key or a wrong tier shows in the total.           *)
(***************************************************************************)
stationMapping ==
    ("Metro Center" :> "A01") @@ ("Farragut North" :> "A02") @@
    ("Farragut West" :> "C03") @@ ("Gallery Place" :> "B01")

gateStationMapping == ("Farragut N" :> "Farragut North")

fares ==
    ("A01-A02" :> [PeakTime |-> 240, OffPeakTime |-> 225]) @@
    ("A02-A01" :> [PeakTime |-> 241, OffPeakTime |-> 226]) @@
    ("C03-B01" :> [PeakTime |-> 250, OffPeakTime |-> 230]) @@
    ("A02-C03" :> [PeakTime |-> 260, OffPeakTime |-> 235]) @@
    ("A01-B01" :> [PeakTime |-> 275, OffPeakTime |-> 245]) @@
    ("A01-C03" :> [PeakTime |-> 265, OffPeakTime |-> 236])

BusFare == 225

(***************************************************************************)
(* Station resolver.                                                       *)
(***************************************************************************)
\* fast-fuzzy's score of a query against a station name, in hundredths:
\* 100 for the name itself, the listed score for a near miss, 0 otherwise.
NearMiss ==
    (<<"Farragut N", "Farragut North">> :> 90) @@
    (<<"Farragut N", "Farragut West">> :> 70)

Similarity(query, name) ==
    IF query = name THEN 100
    ELSE IF <<query, name>> \in DOMAIN NearMiss THEN NearMiss[<<query, name>>]
    ELSE 0

\* search(stationName, stationNames, {threshold, limit: 1}): the best match
\* at or above the threshold, as a sequence of at most one name.
search(stationName, stationNames, threshold) ==
    LET hits == {n \in stationNames : Similarity(stationName, n) >= threshold}
    IN  IF hits = {} THEN <<>>
        ELSE <<CHOOSE n \in hits :
                 \A m \in hits : Similarity(stationName, m) <= Similarity(stationName, n)>>

Threshold == 75
Threshold_lib == 80

fuzzyMatchStation(stationName) ==
    IF stationName = "" THEN ""
    ELSE IF stationName \in DOMAIN gateStationMapping
    THEN IF gateStationMapping[stationName] \in DOMAIN stationMapping
         THEN stationMapping[gateStationMapping[stationName]]
         ELSE ""
    ELSE LET match == search(stationName, DOMAIN stationMapping, Threshold)
         IN  IF Len(match) > 0 THEN stationMapping[match[1]] ELSE ""

fuzzyMatchStation_lib(stationName) ==
    IF stationName = "" THEN ""
    ELSE LET match == search(stationName, DOMAIN stationMapping, Threshold_lib)
         IN  IF Len(match) > 0 THEN stationMapping[match[1]] ELSE ""

(***************************************************************************)
(* Fare table lookup.                                                      *)
(***************************************************************************)
getFare(entry, exit, pk) ==
    LET fareKey == entry \o "-" \o exit
    IN  IF fareKey \notin DOMAIN fares THEN 0
        ELSE IF pk THEN fares[fareKey].PeakTime ELSE fares[fareKey].OffPeakTime

(***************************************************************************)
(* Tap parser.                                                             *)
(***************************************************************************)
Header == <<"Time", "Description", "Operator", "Entry Location/ Bus Route", "Exit Location">>

\* csv.trim().split('\n') with each line split on ',' and trimmed is the
\* sequence of field sequences `text`; obj[h] = values[i] ?? ''.
parseCSV(text) ==
    LET headers == text[1]
        obj(values) ==
            [h \in {headers[k] : k \in 1..Len(headers)} |->
                LET k == CHOOSE k \in 1..Len(headers) :
                             /\ headers[k] = h
                             /\ \A m \in 1..Len(headers) : headers[m] = h => m <= k
                IN  IF k <= Len(values) THEN values[k] ELSE ""]
    IN  [n \in 1..(Len(text) - 1) |-> obj(text[n + 1])]

(***************************************************************************)
(* Ride reconstructor: the body of the first loop of createRides.          *)
(***************************************************************************)
MetrobusRide(row) ==
    [peak |-> isPeak(row["Time"]),
     type |-> "Metrobus",
     entry_location |-> fuzzyMatchStation(row["Entry Location/ Bus Route"]),
     entry_time |-> Date(row["Time"]),
     exit_location |-> "",
     exit_time |-> Undefined,
     regular_cost |-> BusFare]

MetrobusRide_lib(row) ==
    [peak |-> isPeak_lib(row["Time"]),
     type |-> "Metrobus",
     entry_location |-> fuzzyMatchStation_lib(row["Entry Location/ Bus Route"]),
     exit_location |-> "",
     regular_cost |-> BusFare]

\* Mutant: the exit row is always its own entry reference.
EntryRow_self(rws, n) == rws[n]

\* part_000 looks at the row after the exit, lib/calculator.ts at the row before.
EntryRow(rws, n) ==
    LET entryRow == IF n + 1 <= Len(rws) THEN rws[n + 1] ELSE rws[n]
    IN  IF entryRow["Description"] # "Entry" THEN rws[n] ELSE entryRow

EntryRow_lib(rws, n) ==
    LET entryRow == IF n > 1 THEN rws[n - 1] ELSE rws[n]
    IN  IF entryRow["Description"] # "Entry" THEN rws[n] ELSE entryRow

MetrorailRide(rws, n) ==
    LET row == rws[n]
        entryRow == EntryRow(rws, n)
        entryCode == fuzzyMatchStation(row["Entry Location/ Bus Route"])
        exitCode == fuzzyMatchStation(row["Exit Location"])
        pk == isPeak(entryRow["Time"])
    IN  [peak |-> pk,
         type |-> "Metrorail",
         entry_location |-> entryCode,
         entry_time |-> Date(entryRow["Time"]),
         exit_location |-> exitCode,
         exit_time |-> Date(row["Time"]),
         regular_cost |-> getFare(entryCode, exitCode, pk)]

MetrorailRide_lib(rws, n) ==
    LET row == rws[n]
        entryRow == EntryRow_lib(rws, n)
        entryCode == fuzzyMatchStation_lib(row["Entry Location/ Bus Route"])
        exitCode == fuzzyMatchStation_lib(row["Exit Location"])
        pk == isPeak_lib(entryRow["Time"])
    IN  [peak |-> pk,
         type |-> "Metrorail",
         entry_location |-> entryCode,
         exit_location |-> exitCode,
         regular_cost |-> getFare(entryCode, exitCode, pk)]

\* Mutant: every tap that is not a rail tap counts as a bus boarding.
IsBusTap_notRail(row) == row["Operator"] # "Metrorail"

\* Mutant: every rail tap makes a ride, entries too.
IsRailExitTap_anyRail(row) == row["Operator"] = "Metrorail"

IsBusTap(row) == row["Operator"] = "Metrobus"
IsRailExitTap(row) == row["Operator"] = "Metrorail" /\ row["Description"] = "Exit"

\* What one iteration of the first loop pushes: a sequence of at most one ride.
RidesOfRow(rws, n) ==
    IF IsBusTap(rws[n]) THEN <<MetrobusRide(rws[n])>>
    ELSE IF IsRailExitTap(rws[n]) THEN <<MetrorailRide(rws, n)>>
    ELSE <<>>

RidesOfRow_lib(rws, n) ==
    IF IsBusTap(rws[n]) THEN <<MetrobusRide_lib(rws[n])>>
    ELSE IF IsRailExitTap(rws[n]) THEN <<MetrorailRide_lib(rws, n)>>
    ELSE <<>>

(***************************************************************************)
(* Transfer collapser: the body of the second loop of createRides          *)
(* (part_000 only).                                                        *)
(***************************************************************************)
isFarragutStation(station) == station \in {"A02", "C03"}

oppositeFarragutStation(ride) == IF ride.entry_location = "A02" THEN "C03" ELSE "A02"

Eligible(ride) ==
    /\ ride.type = "Metrorail"
    /\ isFarragutStation(ride.entry_location)
    /\ ride.entry_time # Undefined

\* The `continue` of the inner loop: not a rail ride that left at a Farragut station.
Skipped(prevRide) ==
    \/ prevRide.type # "Metrorail"
    \/ ~isFarragutStation(prevRide.exit_location)
    \/ prevRide.exit_time = Undefined

timeDiff(ride, prevRide) == MinutesBetween(ride.entry_time, prevRide.exit_time)

\* The inner loop from index j on: the index of the ride the transfer is
\* found with, 0 when the loop ends or breaks without one.
RECURSIVE FindTransfer(_, _, _)
FindTransfer(rds, ride, j) ==
    IF j > Len(rds) THEN 0
    ELSE IF Skipped(rds[j]) THEN FindTransfer(rds, ride, j + 1)
    ELSE IF MoreThan30(timeDiff(ride, rds[j])) THEN 0
    ELSE IF rds[j].exit_location = oppositeFarragutStation(ride) THEN j
    ELSE FindTransfer(rds, ride, j + 1)

\* Mutant: the merged ride keeps its own peak flag and is priced at it.
TransferRide_ownPeak(ride, prevRide) ==
    [ride EXCEPT !.entry_location = prevRide.entry_location,
                 !.entry_time = prevRide.entry_time,
                 !.regular_cost = getFare(prevRide.entry_location, ride.exit_location,
                                          ride.peak)]

\* Mutant: the merged ride keeps the fare of its own leg.
TransferRide_keepFare(ride, prevRide) ==
    [ride EXCEPT !.peak = prevRide.peak,
                 !.entry_location = prevRide.entry_location,
                 !.entry_time = prevRide.entry_time]

\* {...ride, peak, entry_location, entry_time, regular_cost}
TransferRide(ride, prevRide) ==
    [ride EXCEPT !.peak = prevRide.peak,
                 !.entry_location = prevRide.entry_location,
                 !.entry_time = prevRide.entry_time,
                 !.regular_cost = getFare(prevRide.entry_location, ride.exit_location,
                                          prevRide.peak)]

\* Mutant: the matched ride stays in the array.
Splice_none(s, j) == s

\* rides.splice(j, 1)
Splice(s, j) == [k \in 1..(Len(s) - 1) |-> IF k < j THEN s[k] ELSE s[k + 1]]

\* The index found for rides[n], 0 when rides[n] is pushed as it is.
TransferOf(rds, n) ==
    IF Eligible(rds[n]) THEN FindTransfer(rds, rds[n], n + 1) ELSE 0

(***************************************************************************)
(* Savings aggregator.                                                     *)
(***************************************************************************)
RECURSIVE Sum(_, _)
\* rides.reduce((sum, r) => sum + f(r), start)
Sum(costs, start) ==
    IF costs = <<>> THEN start ELSE Sum(Tail(costs), start + Head(costs))

\* Mutant: a ride over the cap is billed in full.
Overage_whole(cost, limit) == IF limit # Infinity /\ cost > limit THEN cost ELSE 0

Overage(cost, limit) == IF limit # Infinity /\ cost > limit THEN cost - limit ELSE 0

Abs(x) == IF x < 0 THEN -x ELSE x

\* Mutant: breaking even needs a strictly larger pay-per-ride total.
Savings_strict(rds, cost, limit) ==
    LET totalCost == Sum([k \in 1..Len(rds) |-> rds[k].regular_cost], 0)
        totalSpent == Sum([k \in 1..Len(rds) |-> Overage(rds[k].regular_cost, limit)], cost)
        savings == totalCost - totalSpent
    IN  [totalCost |-> totalCost,
         totalSpent |-> totalSpent,
         savings |-> Abs(savings),
         brokeEven |-> totalCost > totalSpent]

Savings(rds, cost, limit) ==
    LET totalCost == Sum([k \in 1..Len(rds) |-> rds[k].regular_cost], 0)
        totalSpent == Sum([k \in 1..Len(rds) |-> Overage(rds[k].regular_cost, limit)], cost)
        savings == totalCost - totalSpent
    IN  [totalCost |-> totalCost,
         totalSpent |-> totalSpent,
         savings |-> Abs(savings),
         brokeEven |-> totalCost >= totalSpent]

(***************************************************************************)
(* Inputs.                                                                 *)
(***************************************************************************)
\* The taps the logs are made of: rail exits of four trips (the last with a
\* gate alias and an unknown gate), rail entries, bus boardings, a short
\* line and another operator's tap.  The times are 30, 31, 1 and 0 minutes
\* apart and lie on both sides of the 05:00 peak boundary.
ExitLines ==
    { <<t, "Exit", "Metrorail", "Metro Center", "Farragut North">> :
          t \in {"06/03/25 04:29 AM", "06/03/25 04:59 AM"} } \cup
    { <<t, "Exit", "Metrorail", "Farragut West", "Gallery Place">> :
          t \in {"06/03/25 04:59 AM", "06/03/25 05:00 AM"} } \cup
    { <<t, "Exit", "Metrorail", "Farragut North", "Farragut West">> :
          t \in DOMAIN Clock } \cup
    { <<"06/03/25 05:00 AM", "Exit", "Metrorail", "Farragut N", "Nowhere">> }
EntryLines ==
    { <<"06/03/25 04:29 AM", "Entry", "Metrorail", "Metro Center", "">>,
      <<"06/03/25 05:00 AM", "Entry", "Metrorail", "Metro Center", "">>,
      <<"06/03/25 04:59 AM", "Entry", "Metrorail", "Farragut West", "">> }
BusLines == { <<"06/03/25 05:00 AM", d, "Metrobus", "42", "">> : d \in {"Entry", "Exit"} }
OtherLines == { <<"06/03/25 04:59 AM", "Sale">>,
                <<"06/03/25 04:59 AM", "Exit", "DC Circulator", "", "">> }
Lines == ExitLines \cup EntryLines \cup BusLines \cup OtherLines

RECURSIVE SeqsUpTo(_, _)
SeqsUpTo(S, n) ==
    IF n = 0 THEN {<<>>}
    ELSE LET shorter == SeqsUpTo(S, n - 1)
         IN  shorter \cup {Append(s, x) : s \in {t \in shorter : Len(t) = n - 1}, x \in S}

PassCosts == {0, 225}
PassLimits == {Infinity, 200}

(***************************************************************************)
(* The upload wizard's data (src/routes/+page.svelte).                     *)
(***************************************************************************)
MaxReaders == 2

\* csvData = null
NoData == <<>>

\* files = null, and the FileList of a selection (of no file or of one)
NullFiles == [null |-> TRUE, list |-> <<>>]
FileList(list) == [null |-> FALSE, list |-> list]

NoCall == [called |-> FALSE, data |-> NoData, files |-> NullFiles]

\* no reader is waiting
NoReaders == [n \in {"a.csv", "b.csv", "bad.csv", "short.csv"} |-> 0]

\* the wizard before it is mounted (the engine runs on its own)
WizardIdle ==
    /\ step = 1
    /\ loading = TRUE
    /\ files = NullFiles
    /\ csvData = NoData
    /\ fileValid = TRUE
    /\ pass = ""
    /\ breakEven = FALSE
    /\ savings_page = 0
    /\ readers = NoReaders
    /\ lastCall = NoCall

NoResult == [totalCost |-> -1, totalSpent |-> -1, savings |-> -1, brokeEven |-> FALSE]

(***************************************************************************)
(* calculatePassSavings, step by step.                                     *)
(***************************************************************************)
Init ==
    /\ WizardIdle
    /\ impl \in {"part_000", "lib"}
    /\ pc = "parseCSV"
    /\ csv \in {<<Header>> \o body : body \in SeqsUpTo(Lines, MaxRows)}
    /\ rows = <<>>
    /\ i = 1
    /\ rides = <<>>
    /\ newRides = <<>>
    /\ result = NoResult
    /\ passCost = Undefined
    /\ passLimit = Undefined
    /\ date = NaN
    /\ peak = FALSE
    /\ peak_lib = FALSE
    /\ rides0 = <<>>
    /\ ids = <<>>
    /\ emitted = <<>>

\* const rows = parseCSV(csv)
Parse ==
    /\ UNCHANGED wizardVars
    /\ pc = "parseCSV"
    /\ rows' = parseCSV(csv)
    /\ pc' = "rows"
    /\ UNCHANGED <<impl, csv, i, rides, newRides, result, passCost, passLimit,
                   date, peak, peak_lib, rides0, ids, emitted>>

\* one iteration of for (let i = 0; i < rows.length; i++)
ReconstructRow ==
    /\ UNCHANGED wizardVars
    /\ pc = "rows"
    /\ i <= Len(rows)
    /\ rides' = rides \o (IF impl = "part_000" THEN RidesOfRow(rows, i)
                                               ELSE RidesOfRow_lib(rows, i))
    /\ i' = i + 1
    /\ UNCHANGED <<impl, pc, csv, rows, newRides, result, passCost, passLimit,
                   date, peak, peak_lib, rides0, ids, emitted>>

\* the first loop ends: part_000 goes on to the transfer loop, lib returns rides
ReconstructDone ==
    /\ UNCHANGED wizardVars
    /\ pc = "rows"
    /\ i > Len(rows)
    /\ pc' = IF impl = "part_000" THEN "rides" ELSE "totals"
    /\ i' = 1
    /\ rides0' = rides
    /\ ids' = [k \in 1..Len(rides) |-> k]
    /\ UNCHANGED <<impl, csv, rows, rides, newRides, result, passCost, passLimit,
                   date, peak, peak_lib, emitted>>

\* one iteration of for (let i = 0; i < rides.length; i++), inner loop included
CollapseRide ==
    /\ UNCHANGED wizardVars
    /\ pc = "rides"
    /\ i <= Len(rides)
    /\ LET j == TransferOf(rides, i)
       IN  IF j # 0
           THEN /\ newRides' = Append(newRides, TransferRide(rides[i], rides[j]))
                /\ rides' = Splice(rides, j)
                /\ emitted' = Append(emitted, <<ids[i], ids[j]>>)
                /\ ids' = Splice(ids, j)
           ELSE /\ newRides' = Append(newRides, rides[i])
                /\ emitted' = Append(emitted, <<ids[i], 0>>)
                /\ UNCHANGED <<rides, ids>>
    /\ i' = i + 1
    /\ UNCHANGED <<impl, pc, csv, rows, result, passCost, passLimit,
                   date, peak, peak_lib, rides0>>

\* return newRides
CollapseDone ==
    /\ UNCHANGED wizardVars
    /\ pc = "rides"
    /\ i > Len(rides)
    /\ pc' = "totals"
    /\ UNCHANGED <<impl, csv, rows, i, rides, newRides, result, passCost, passLimit,
                   date, peak, peak_lib, rides0, ids, emitted>>

\* what createRides returned
FinalRides == IF impl = "part_000" THEN newRides ELSE rides

\* the two reduces and the return of calculatePassSavings
Totals ==
    /\ UNCHANGED wizardVars
    /\ pc = "totals"
    /\ \E cost \in PassCosts, limit \in PassLimits :
          /\ passCost' = cost
          /\ passLimit' = limit
          /\ result' = Savings(FinalRides, cost, limit)
    /\ pc' = "done"
    /\ UNCHANGED <<impl, csv, rows, i, rides, newRides,
                   date, peak, peak_lib, rides0, ids, emitted>>

Next ==
    \/ Parse
    \/ ReconstructRow
    \/ ReconstructDone
    \/ CollapseRide
    \/ CollapseDone
    \/ Totals

Spec == Init /\ [][Next]_vars

(***************************************************************************)
(* The peak classifiers on their own, over every minute of a week.         *)
(***************************************************************************)
InitPeak ==
    /\ WizardIdle
    /\ impl = "part_000"
    /\ pc = "isPeak"
    /\ date \in 0..(DaysPerWeek * MinutesPerDay - 1)
    /\ csv = <<Header>>
    /\ rows = <<>>
    /\ i = 1
    /\ rides = <<>>
    /\ newRides = <<>>
    /\ result = NoResult
    /\ passCost = Undefined
    /\ passLimit = Undefined
    /\ peak = FALSE
    /\ peak_lib = FALSE
    /\ rides0 = <<>>
    /\ ids = <<>>
    /\ emitted = <<>>

Classify ==
    /\ UNCHANGED wizardVars
    /\ pc = "isPeak"
    /\ peak' = isPeakDate(date)
    /\ peak_lib' = isPeakDate_lib(date)
    /\ pc' = "classified"
    /\ UNCHANGED <<impl, csv, rows, i, rides, newRides, result, passCost, passLimit,
                   date, rides0, ids, emitted>>

NextPeak == Classify

SpecPeak == InitPeak /\ [][NextPeak]_vars

(***************************************************************************)
(* The upload wizard (src/routes/+page.svelte).  A handler and the effects *)
(* it reruns are one step: Svelte flushes the effects in the microtask     *)
(* that follows the handler, before any other event is dispatched.  A      *)
(* FileReader's onload is a task of its own and fires at any later time.   *)
(***************************************************************************)
\* The files the user can pick: name and content, the content as parseCSV
\* takes it.  Two valid logs, a log with other columns, a log of one line,
\* and a valid log under another extension.
LogA == <<Header, <<"06/03/25 05:00 AM", "Entry", "Metrobus", "42", "">>>>
LogB == <<Header, <<"06/03/25 04:59 AM", "Exit", "Metrorail", "Metro Center", "Farragut North">>>>
OtherColumns == <<<<"Date", "Amount">>, <<"06/03/25", "2.25">>>>
OneLine == <<Header>>

Files ==
    { [name |-> "a.csv", content |-> LogA],
      [name |-> "b.csv", content |-> LogB],
      [name |-> "bad.csv", content |-> OtherColumns],
      [name |-> "short.csv", content |-> OneLine],
      [name |-> "notes.txt", content |-> LogA] }

\* what the file dialog can hand to bind:files: one file, or none
Selections == {FileList(<<f>>) : f \in Files} \cup {FileList(<<>>)}

\* files[0].name.endsWith('.csv')
endsWith_csv(name) == name \in DOMAIN NoReaders

\* passes.json: amounts in cents, fareLimit Undefined where the pass has none
passes ==
    << [name |-> "Monthly Unlimited Pass", price |-> 7200, fareLimit |-> 225],
       [name |-> "1-Day Unlimited Pass", price |-> 1350, fareLimit |-> Undefined] >>

PassNames == {passes[k].name : k \in DOMAIN passes}

\* what localStorage.getItem('selectedPass') can hold: nothing, a pass, or
\* the name of a pass that is no longer in passes.json
SavedPasses == {""} \cup PassNames \cup {"Retired Pass"}

NoPass == [name |-> "", price |-> Undefined, fareLimit |-> Undefined]

\* passes.find((p) => p.name === pass)
find(name) ==
    IF \E k \in DOMAIN passes : passes[k].name = name
    THEN passes[CHOOSE k \in DOMAIN passes :
                    /\ passes[k].name = name
                    /\ \A m \in DOMAIN passes : passes[m].name = name => k <= m]
    ELSE NoPass

\* selectedPass.fareLimit || Infinity
fareLimitOrInfinity(selectedPass) ==
    IF selectedPass.fareLimit \in {Undefined, 0} THEN Infinity ELSE selectedPass.fareLimit

RECURSIVE createRides_lib(_, _)
\* lib/calculator.ts createRides over the first n rows
createRides_lib(rws, n) ==
    IF n = 0 THEN <<>> ELSE createRides_lib(rws, n - 1) \o RidesOfRow_lib(rws, n)

\* lib/calculator.ts calculatePassSavings, the function the page imports
calculatePassSavings_lib(data, cost, limit) ==
    LET rws == parseCSV(data)
    IN  Savings(createRides_lib(rws, Len(rws)), cost, limit)

\* the onload callback's checks on the content read
headersPresent(content) ==
    \A k \in DOMAIN Header : \E m \in DOMAIN content[1] : content[1][m] = Header[k]

ReaderCount == Sum([k \in 1..4 |-> readers[<<"a.csv", "b.csv", "bad.csv", "short.csv">>[k]]], 0)

EngineIdle ==
    /\ impl = "lib"
    /\ pc = "idle"
    /\ csv = <<Header>>
    /\ rows = <<>>
    /\ i = 1
    /\ rides = <<>>
    /\ newRides = <<>>
    /\ result = NoResult
    /\ passCost = Undefined
    /\ passLimit = Undefined
    /\ date = NaN
    /\ peak = FALSE
    /\ peak_lib = FALSE
    /\ rides0 = <<>>
    /\ ids = <<>>
    /\ emitted = <<>>

\* The page once mounted: the validation effect has run with files = null,
\* the localStorage effect has loaded the saved pass.
InitWizard ==
    /\ EngineIdle
    /\ step = 1
    /\ loading = TRUE
    /\ files = NullFiles
    /\ csvData = NoData
    /\ fileValid = FALSE
    /\ pass \in SavedPasses
    /\ breakEven = FALSE
    /\ savings_page = 0
    /\ readers = NoReaders
    /\ lastCall = NoCall

\* The analysis effect, rerun with the new values s, data, p of step,
\* csvData and pass; fl is `files` at that moment.
AnalysisEffect(s, data, p, fl) ==
    IF s = 4 /\ data # NoData /\ p # ""
    THEN LET selectedPass == find(p)
         IN  IF selectedPass = NoPass
             THEN /\ loading' = FALSE
                  /\ UNCHANGED <<savings_page, breakEven, lastCall>>
             ELSE LET r == calculatePassSavings_lib(data, selectedPass.price,
                                                    fareLimitOrInfinity(selectedPass))
                  IN  /\ savings_page' = r.savings
                      /\ breakEven' = r.brokeEven
                      /\ loading' = FALSE
                      /\ lastCall' = [called |-> TRUE, data |-> data, files |-> fl]
    ELSE UNCHANGED <<loading, savings_page, breakEven, lastCall>>

\* step 1: <button onclick={() => step++}>
StartAnalysis ==
    /\ step = 1
    /\ step' = 2
    /\ UNCHANGED <<loading, files, csvData, fileValid, pass, breakEven, savings_page,
                   readers, lastCall>>
    /\ UNCHANGED engineVars

\* step 2: the file input's change event sets `files`; the validation
\* effect reruns: it sets fileValid, and for one .csv file starts a reader.
SelectFiles ==
    /\ step = 2
    /\ \E fl \in Selections :
        /\ files' = fl
        /\ IF Len(fl.list) # 1 \/ ~endsWith_csv(fl.list[1].name)
           THEN /\ fileValid' = FALSE
                /\ UNCHANGED readers
           ELSE /\ ReaderCount < MaxReaders
                /\ fileValid' = TRUE
                /\ readers' = [readers EXCEPT ![fl.list[1].name] = @ + 1]
    /\ UNCHANGED <<step, loading, csvData, pass, breakEven, savings_page, lastCall>>
    /\ UNCHANGED engineVars

\* reader.onload of any reader still waiting, then the analysis effect if
\* csvData changed
OnLoad ==
    /\ \E f \in Files :
        /\ endsWith_csv(f.name)
        /\ readers[f.name] > 0
        /\ readers' = [readers EXCEPT ![f.name] = @ - 1]
        /\ LET content == f.content
           IN  IF Len(content) < 2
               THEN /\ fileValid' = FALSE
                    /\ UNCHANGED <<csvData, loading, savings_page, breakEven, lastCall>>
               ELSE /\ fileValid' = headersPresent(content)
                    /\ IF headersPresent(content)
                       THEN /\ csvData' = content
                            /\ IF content # csvData
                               THEN AnalysisEffect(step, content, pass, files)
                               ELSE UNCHANGED <<loading, savings_page, breakEven, lastCall>>
                       ELSE UNCHANGED <<csvData, loading, savings_page, breakEven, lastCall>>
    /\ UNCHANGED <<step, files, pass>>
    /\ UNCHANGED engineVars

\* step 2: <button disabled={!files || !fileValid} onclick={() => step++}>
NextFromUpload ==
    /\ step = 2
    /\ ~files.null
    /\ fileValid
    /\ step' = 3
    /\ UNCHANGED <<loading, files, csvData, fileValid, pass, breakEven, savings_page,
                   readers, lastCall>>
    /\ UNCHANGED engineVars

\* step 3: <select bind:value={pass}>
SelectPass ==
    /\ step = 3
    /\ \E name \in PassNames : pass' = name
    /\ UNCHANGED <<step, loading, files, csvData, fileValid, breakEven, savings_page,
                   readers, lastCall>>
    /\ UNCHANGED engineVars

\* step 3: <button disabled={!pass} onclick={() => step++}>, then the
\* analysis effect
NextFromPass ==
    /\ step = 3
    /\ pass # ""
    /\ step' = 4
    /\ AnalysisEffect(4, csvData, pass, files)
    /\ UNCHANGED <<files, csvData, fileValid, pass, readers>>
    /\ UNCHANGED engineVars

\* step 4, not loading: the Restart button
Restart ==
    /\ step = 4
    /\ ~loading
    /\ step' = 1
    /\ loading' = TRUE
    /\ UNCHANGED <<files, csvData, fileValid, pass, breakEven, savings_page, readers,
                   lastCall>>
    /\ UNCHANGED engineVars

NextWizard ==
    \/ StartAnalysis
    \/ SelectFiles
    \/ OnLoad
    \/ NextFromUpload
    \/ SelectPass
    \/ NextFromPass
    \/ Restart

SpecWizard == InitWizard /\ [][NextWizard]_vars

\* every reader started eventually fires its onload
SpecWizardFair == SpecWizard /\ WF_vars(OnLoad)

(***************************************************************************)
(* Properties.                                                             *)
(***************************************************************************)
\* The fare policy: Monday to Friday, local clock time in [05:00, 21:30).
PeakPolicy(d) ==
    LET minuteOfDay == d % MinutesPerDay
    IN  /\ getDay(d) \in 1..5
        /\ minuteOfDay >= 5 * 60
        /\ minuteOfDay < 21 * 60 + 30

\* C1: isPeak answers true exactly on Monday-Friday in [05:00, 21:30), in
\* part_000 and in lib/calculator.ts, for every weekday, hour and minute.
C1_IsPeakExact ==
    pc = "classified" => (peak = PeakPolicy(date) /\ peak_lib = PeakPolicy(date))

\* C1, the part that holds: part_000's isPeak is the policy.
C1_IsPeakExact_part000 ==
    pc = "classified" => peak = PeakPolicy(date)

Returned == pc \in {"totals", "done"}

\* the ride the spec describes for a transfer from first (R1) to second (R2)
MergedRide(first, second) ==
    [peak |-> first.peak,
     type |-> "Metrorail",
     entry_location |-> first.entry_location,
     entry_time |-> first.entry_time,
     exit_location |-> second.exit_location,
     exit_time |-> second.exit_time,
     regular_cost |-> getFare(first.entry_location, second.exit_location, first.peak)]

OtherInterchange(code) == IF code = "A02" THEN "C03" ELSE "A02"

\* rides0[1] is R2, a rail ride entering at A02/C03; rides0[2] is R1, a rail
\* ride that left at the other one; both carry valid times.
TransferPair ==
    /\ impl = "part_000"
    /\ Returned
    /\ Len(rides0) >= 2
    /\ rides0[1].type = "Metrorail"
    /\ rides0[2].type = "Metrorail"
    /\ rides0[1].entry_location \in {"A02", "C03"}
    /\ rides0[2].exit_location = OtherInterchange(rides0[1].entry_location)
    /\ rides0[1].entry_time >= 0
    /\ rides0[2].exit_time >= 0

TransferGap == rides0[1].entry_time - rides0[2].exit_time

C2_WitnessTooLate ==
    /\ TransferPair
    /\ pc = "done"
    /\ TransferGap = 31
    /\ Len(newRides) = 2

\* C3: every merge of a ride R with a candidate C has C a rail ride that
\* left at the other interchange code, with an exit time, and
\* 0 <= R.entry_time - C.exit_time <= 30 minutes.
C3_MergeWindow ==
    (impl = "part_000" /\ pc \in {"rides", "totals", "done"}) =>
        \A k \in 1..Len(emitted) :
            emitted[k][2] # 0 =>
                LET R == rides0[emitted[k][1]]
                    C == rides0[emitted[k][2]]
                IN  /\ C.type = "Metrorail"
                    /\ C.exit_location = OtherInterchange(R.entry_location)
                    /\ C.exit_time # Undefined
                    /\ R.entry_time - C.exit_time >= 0
                    /\ R.entry_time - C.exit_time <= 30

\* C3, the part that holds: the candidate is a rail ride that left at the
\* other interchange code no more than 30 minutes before R entered.
C3_MergeWindow_upper ==
    (impl = "part_000" /\ pc \in {"rides", "totals", "done"}) =>
        \A k \in 1..Len(emitted) :
            emitted[k][2] # 0 =>
                LET R == rides0[emitted[k][1]]
                    C == rides0[emitted[k][2]]
                IN  /\ C.type = "Metrorail"
                    /\ C.exit_location = OtherInterchange(R.entry_location)
                    /\ C.exit_time # Undefined
                    /\ R.entry_time - C.exit_time <= 30

\* how often raw ride n was pushed, how often it was spliced out
TimesEmitted(n) == Cardinality({k \in 1..Len(emitted) : emitted[k][1] = n})
TimesConsumed(n) == Cardinality({k \in 1..Len(emitted) : emitted[k][2] = n})
Collapses == Cardinality({k \in 1..Len(emitted) : emitted[k][2] # 0})

\* C4: the collapser partitions the raw rides: each is emitted unchanged,
\* or emitted once as the survivor of one collapse, or consumed by exactly
\* one collapse and never emitted; the output is shorter than the input by
\* the number of collapses.
C4_Partition ==
    (impl = "part_000" /\ Returned) =>
        /\ Len(emitted) = Len(newRides)
        /\ \A n \in 1..Len(rides0) : TimesEmitted(n) + TimesConsumed(n) = 1
        /\ \A k \in 1..Len(emitted) :
              /\ emitted[k][1] \in 1..Len(rides0)
              /\ emitted[k][2] \in 0..Len(rides0)
              /\ emitted[k][2] = 0 => newRides[k] = rides0[emitted[k][1]]
              /\ emitted[k][2] # 0 =>
                    /\ newRides[k].exit_location = rides0[emitted[k][1]].exit_location
                    /\ newRides[k].exit_time = rides0[emitted[k][1]].exit_time
                    /\ newRides[k].entry_location = rides0[emitted[k][2]].entry_location
        /\ Len(newRides) = Len(rides0) - Collapses

\* C4 witness: three raw rides, one collapse, two rides out.
C4_Witness ==
    /\ impl = "part_000"
    /\ pc = "done"
    /\ Len(rides0) = 3
    /\ Collapses = 1
    /\ Len(newRides) = 2

RECURSIVE FaresUpTo(_, _)
\* the fares of rds[1..n] added up
FaresUpTo(rds, n) == IF n = 0 THEN 0 ELSE FaresUpTo(rds, n - 1) + rds[n].regular_cost

RECURSIVE OverCapUpTo(_, _, _)
\* max(0, fare - limit) of rds[1..n] added up, for a finite limit
OverCapUpTo(rds, n, limit) ==
    IF n = 0 THEN 0
    ELSE OverCapUpTo(rds, n - 1, limit) +
         (IF rds[n].regular_cost - limit > 0 THEN rds[n].regular_cost - limit ELSE 0)

\* C5: totalCost is the sum of the final rides' fares; totalSpent is passCost
\* plus the sum of max(0, fare - passLimit); with passLimit = Infinity the
\* overage is zero and totalSpent = passCost.
C5_Totals ==
    pc = "done" =>
        /\ result.totalCost = FaresUpTo(FinalRides, Len(FinalRides))
        /\ passLimit # Infinity =>
              result.totalSpent = passCost + OverCapUpTo(FinalRides, Len(FinalRides), passLimit)
        /\ passLimit = Infinity => result.totalSpent = passCost

\* C5 witness: a capped pass, one ride over the cap and one under it.
C5_Witness ==
    /\ pc = "done"
    /\ passLimit = 200
    /\ passCost > 0
    /\ \E k \in 1..Len(FinalRides) : FinalRides[k].regular_cost > 200
    /\ \E k \in 1..Len(FinalRides) : FinalRides[k].regular_cost < 200
    /\ result.totalSpent > passCost

\* C6: savings = |totalCost - totalSpent| >= 0; brokeEven iff
\* totalCost >= totalSpent; at totalCost = totalSpent brokeEven is true and
\* savings is 0.
C6_SavingsAndBreakEven ==
    pc = "done" =>
        /\ result.savings = (IF result.totalCost >= result.totalSpent
                             THEN result.totalCost - result.totalSpent
                             ELSE result.totalSpent - result.totalCost)
        /\ result.savings >= 0
        /\ result.brokeEven = (result.totalCost >= result.totalSpent)
        /\ result.totalCost = result.totalSpent =>
              (result.brokeEven /\ result.savings = 0)

\* C6 witness: the boundary, with rides in the log.
C6_Witness ==
    /\ pc = "done"
    /\ result.totalCost = result.totalSpent
    /\ result.totalCost > 0
    /\ result.brokeEven
    /\ result.savings = 0

TapIsBus(row) == row["Operator"] = "Metrobus"
TapIsRailExit(row) == row["Operator"] = "Metrorail" /\ row["Description"] = "Exit"
TapIsRailEntry(row) == row["Operator"] = "Metrorail" /\ row["Description"] = "Entry"
TapQualifies(row) == TapIsBus(row) \/ TapIsRailExit(row)

\* An Entry tap and the Exit tap of the same trip, both stations in the
\* station table and the pair in the fare table.
IsPair(entry, exit) ==
    /\ TapIsRailEntry(entry)
    /\ TapIsRailExit(exit)
    /\ entry["Entry Location/ Bus Route"] = exit["Entry Location/ Bus Route"]
    /\ exit["Entry Location/ Bus Route"] \in DOMAIN stationMapping
    /\ exit["Exit Location"] \in DOMAIN stationMapping
    /\ (stationMapping[exit["Entry Location/ Bus Route"]] \o "-" \o
        stationMapping[exit["Exit Location"]]) \in DOMAIN fares
    /\ Date(entry["Time"]) # NaN
    /\ Date(exit["Time"]) # NaN
    /\ Date(entry["Time"]) <= Date(exit["Time"])

\* The Entry and the Exit tap of the pair that rows n, n+1 hold: the export
\* read by part_000 is newest first, the one read by lib oldest first.
EntryOfPair(n) == IF impl = "part_000" THEN rows[n + 1] ELSE rows[n]
ExitOfPair(n) == IF impl = "part_000" THEN rows[n] ELSE rows[n + 1]

PairLog ==
    /\ Len(rows) > 0
    /\ Len(rows) % 2 = 0
    /\ \A n \in 1..Len(rows) : n % 2 = 1 => IsPair(EntryOfPair(n), ExitOfPair(n))

PairFare(entry, exit) ==
    LET fare == fares[stationMapping[exit["Entry Location/ Bus Route"]] \o "-" \o
                      stationMapping[exit["Exit Location"]]]
    IN  IF PeakPolicy(Date(entry["Time"])) THEN fare.PeakTime ELSE fare.OffPeakTime

RECURSIVE PairFaresUpTo(_)
PairFaresUpTo(n) ==
    IF n <= 0 THEN 0
    ELSE PairFaresUpTo(n - 2) + PairFare(EntryOfPair(n - 1), ExitOfPair(n - 1))

\* C7: for a log of fully-resolvable Metrorail Entry/Exit pairs, totalCost is
\* the sum over the pairs of the fare table's value for (entry code, exit
\* code) at the tier of the pair's entry tap time.
C7_PairLogTotal ==
    (pc = "done" /\ PairLog) => result.totalCost = PairFaresUpTo(Len(rows))

\* C7, restricted to part_000 and to logs in which no ride enters at A02/C03.
C7_PairLogTotal_part000_noTransfer ==
    (/\ pc = "done"
     /\ PairLog
     /\ impl = "part_000"
     /\ \A n \in 1..Len(rows) :
           stationMapping[ExitOfPair(IF n % 2 = 1 THEN n ELSE n - 1)["Entry Location/ Bus Route"]]
               \notin {"A02", "C03"})
        => result.totalCost = PairFaresUpTo(Len(rows))

\* C7 in part_000 alone (the transfer rule makes it fail on longer logs).
C7_PairLogTotal_part000 ==
    (pc = "done" /\ PairLog /\ impl = "part_000") => result.totalCost = PairFaresUpTo(Len(rows))

\* C8: a log without a Metrobus tap and without a Metrorail Exit tap gives
\* totalCost 0, totalSpent = passCost, savings = passCost, and brokeEven
\* only when passCost is 0.
C8_NoQualifyingRows ==
    (pc = "done" /\ \A n \in 1..Len(rows) : ~TapQualifies(rows[n])) =>
        /\ result.totalCost = 0
        /\ result.totalSpent = passCost
        /\ result.savings = passCost
        /\ result.brokeEven = (passCost = 0)

\* C8 witness: rows in the log, none of them qualifying, a pass that costs.
C8_Witness ==
    /\ pc = "done"
    /\ Len(rows) >= 2
    /\ \A n \in 1..Len(rows) : ~TapQualifies(rows[n])
    /\ \E n \in 1..Len(rows) : TapIsRailEntry(rows[n])
    /\ passCost > 0
    /\ result.savings = passCost
    /\ ~result.brokeEven

\* the indices of the qualifying taps among rows[1..n], in log order
RECURSIVE QualifyingUpTo(_)
QualifyingUpTo(n) ==
    IF n = 0 THEN <<>>
    ELSE IF TapQualifies(rows[n]) THEN Append(QualifyingUpTo(n - 1), n)
    ELSE QualifyingUpTo(n - 1)

StationCode(name) ==
    IF impl = "part_000" THEN fuzzyMatchStation(name) ELSE fuzzyMatchStation_lib(name)

\* ride is the ride of tap row: same kind, same stations, same tap time
RideIsOfTap(ride, row) ==
    /\ TapIsBus(row) =>
          /\ ride.type = "Metrobus"
          /\ ride.exit_location = ""
          /\ ride.regular_cost = BusFare
          /\ impl = "part_000" => ride.entry_time = Date(row["Time"])
    /\ ~TapIsBus(row) =>
          /\ ride.type = "Metrorail"
          /\ ride.entry_location = StationCode(row["Entry Location/ Bus Route"])
          /\ ride.exit_location = StationCode(row["Exit Location"])
          /\ impl = "part_000" => ride.exit_time = Date(row["Time"])

\* C9: the first loop of createRides emits, in log order, one ride for each
\* Metrobus tap (whatever its Description) and one for each Metrorail Exit
\* tap, and none for any other tap.
C9_OneRidePerQualifyingTap ==
    /\ pc = "rows" =>
          LET taps == QualifyingUpTo(i - 1)
          IN  /\ Len(rides) = Len(taps)
              /\ \A k \in 1..Len(taps) : RideIsOfTap(rides[k], rows[taps[k]])
    /\ pc \in {"rides", "totals", "done"} =>
          LET taps == QualifyingUpTo(Len(rows))
          IN  /\ Len(rides0) = Len(taps)
              /\ \A k \in 1..Len(taps) : RideIsOfTap(rides0[k], rows[taps[k]])

\* C9 witness: a bus tap described as an Exit, a rail Exit, and a tap that
\* makes no ride, in a three-row log: two rides.
C9_Witness ==
    /\ pc = "done"
    /\ Len(rows) = 3
    /\ \E n \in 1..3 : TapIsBus(rows[n]) /\ rows[n]["Description"] = "Exit"
    /\ \E n \in 1..3 : TapIsRailExit(rows[n])
    /\ \E n \in 1..3 : ~TapQualifies(rows[n])
    /\ Len(rides0) = 2

\* the adjacent record of the Exit tap at n: the next one in part_000, the
\* previous one in lib, when it exists and is described as an Entry
HasAdjacentEntry(n) ==
    IF impl = "part_000"
    THEN n + 1 <= Len(rows) /\ rows[n + 1]["Description"] = "Entry"
    ELSE n - 1 >= 1 /\ rows[n - 1]["Description"] = "Entry"

EntryReference(n) ==
    IF ~HasAdjacentEntry(n) THEN rows[n]
    ELSE IF impl = "part_000" THEN rows[n + 1] ELSE rows[n - 1]

PeakOf(time) == IF impl = "part_000" THEN isPeak(time) ELSE isPeak_lib(time)

TableFare(ride) ==
    LET key == ride.entry_location \o "-" \o ride.exit_location
    IN  IF key \in DOMAIN fares
        THEN (IF ride.peak THEN fares[key].PeakTime ELSE fares[key].OffPeakTime)
        ELSE 0

\* C11: every ride createRides returns is priced by its own fields: a
\* Metrobus ride has an empty exit code and the flat fare 2.25, a Metrorail
\* ride the fare table's value for (its entry code, its exit code, its peak
\* flag), 0 when the key is missing from the table.
C11_FareOfOwnFields ==
    Returned =>
        \A k \in 1..Len(FinalRides) :
            LET ride == FinalRides[k]
            IN  /\ ride.type \in {"Metrobus", "Metrorail"}
                /\ ride.type = "Metrobus" =>
                      (ride.exit_location = "" /\ ride.regular_cost = 225)
                /\ ride.type = "Metrorail" => ride.regular_cost = TableFare(ride)

\* C11 witness: a merged ride priced through, off-peak like its first leg
\* although its second leg began in the peak, next to a bus ride.
C11_Witness ==
    /\ pc = "done"
    /\ impl = "part_000"
    /\ Len(newRides) = 2
    /\ \E k \in 1..2 :
          /\ emitted[k][2] # 0
          /\ rides0[emitted[k][1]].peak
          /\ ~newRides[k].peak
          /\ newRides[k].regular_cost = 245
    /\ \E k \in 1..2 : newRides[k].type = "Metrobus"

\* C11, the missing key: a rail ride with an unresolved exit is priced 0.
C11_WitnessMissingKey ==
    /\ pc = "done"
    /\ \E k \in 1..Len(FinalRides) :
          /\ FinalRides[k].type = "Metrorail"
          /\ FinalRides[k].entry_location = "A02"
          /\ FinalRides[k].exit_location = ""
          /\ FinalRides[k].regular_cost = 0

\* when a ride begins and ends (a bus ride has no exit time)
StartOf(ride) == ride.entry_time
EndOf(ride) == IF ride.exit_time = Undefined THEN ride.entry_time ELSE ride.exit_time

\* newest first: every ride begins no earlier than all rides after it ended
Descending(rds) ==
    /\ \A k \in 1..Len(rds) : StartOf(rds[k]) # NaN /\ StartOf(rds[k]) <= EndOf(rds[k])
    /\ \A k, m \in 1..Len(rds) : k < m => EndOf(rds[m]) <= StartOf(rds[k])

\* the log itself is newest first
NewestFirstLog ==
    /\ \A n \in 1..Len(rows) : Date(rows[n]["Time"]) # NaN
    /\ \A n, m \in 1..Len(rows) : n < m => Date(rows[m]["Time"]) <= Date(rows[n]["Time"])

\* conditions (a)-(d) of the transfer rule for ride and candidate
Qualifies(ride, candidate) ==
    /\ candidate.type = "Metrorail"
    /\ candidate.exit_location = OtherInterchange(ride.entry_location)
    /\ candidate.exit_time # Undefined
    /\ ride.entry_time - candidate.exit_time >= 0
    /\ ride.entry_time - candidate.exit_time <= 30

\* the exhaustive scan: the first qualifying candidate after n, 0 if none
ExhaustiveTransferOf(rds, n) ==
    LET found == {j \in (n + 1)..Len(rds) : Qualifies(rds[n], rds[j])}
    IN  IF found = {} THEN 0 ELSE CHOOSE j \in found : \A m \in found : j <= m

EntersAtInterchange(ride) ==
    /\ ride.type = "Metrorail"
    /\ ride.entry_location \in {"A02", "C03"}
    /\ ride.entry_time # Undefined

\* the scan of the ride about to be processed stops at j with a break
BreaksAt(j) ==
    /\ j > i /\ j <= Len(rides)
    /\ rides[j].type = "Metrorail"
    /\ rides[j].exit_location \in {"A02", "C03"}
    /\ rides[i].entry_time - rides[j].exit_time > 30
    /\ \A m \in (i + 1)..(j - 1) :
          \/ rides[m].type # "Metrorail"
          \/ rides[m].exit_location \notin {"A02", "C03"}
          \/ rides[m].exit_location = rides[i].entry_location

\* C12: on a raw ride sequence in descending chronological order the scan
\* that breaks at the first interchange-exiting rail candidate more than 30
\* minutes back finds the same candidate, or none, as the exhaustive scan
\* for the first ride meeting (a)-(d).
C12_EarlyBreakIsExhaustive ==
    (/\ impl = "part_000"
     /\ pc = "rides"
     /\ i <= Len(rides)
     /\ Descending(rides0)
     /\ EntersAtInterchange(rides[i]))
        => TransferOf(rides, i) = ExhaustiveTransferOf(rides, i)

\* C12 witness: the scan breaks with rides still behind the break.
C12_Witness ==
    /\ impl = "part_000"
    /\ pc = "rides"
    /\ i <= Len(rides)
    /\ Descending(rides0)
    /\ EntersAtInterchange(rides[i])
    /\ \E j \in 1..Len(rides) : BreaksAt(j) /\ j < Len(rides)
    /\ TransferOf(rides, i) = 0

\* C12 witness of a hit: a candidate at the same interchange code is passed
\* over and the one behind it is taken.
C12_WitnessHit ==
    /\ impl = "part_000"
    /\ pc = "rides"
    /\ i <= Len(rides)
    /\ Descending(rides0)
    /\ EntersAtInterchange(rides[i])
    /\ TransferOf(rides, i) = i + 2

\* C12 without its premise: on a sequence in any order the break may skip
\* a qualifying candidate.
C12_AnyOrder ==
    (/\ impl = "part_000"
     /\ pc = "rides"
     /\ i <= Len(rides)
     /\ EntersAtInterchange(rides[i])
     /\ ExhaustiveTransferOf(rides, i) # 0)
        => TransferOf(rides, i) = ExhaustiveTransferOf(rides, i)

\* a newest-first log gives a raw ride sequence in descending order
NewestFirstLogGivesDescending ==
    (impl = "part_000" /\ pc \in {"rides", "totals", "done"} /\ NewestFirstLog)
        => Descending(rides0)

\* What the wizard promises of a selected file: its name ends in .csv, it
\* has at least two lines, and its first line holds the five headers.
PassedValidation(f) ==
    /\ f.name \in {"a.csv", "b.csv", "bad.csv", "short.csv"}
    /\ Len(f.content) >= 2
    /\ {"Time", "Description", "Operator", "Entry Location/ Bus Route", "Exit Location"}
           \subseteq {f.content[1][k] : k \in 1..Len(f.content[1])}

\* C13: whenever the analysis effect calls calculatePassSavings, the
\* csvData it passes is the content of the file selected in the file input
\* at that moment, and that file has passed validation.
C13_AnalysesSelectedFile ==
    lastCall.called =>
        /\ ~lastCall.files.null
        /\ Len(lastCall.files.list) = 1
        /\ lastCall.data = lastCall.files.list[1].content
        /\ PassedValidation(lastCall.files.list[1])

\* What does hold: csvData is never anything but the content of a file
\* that passed validation when its onload fired.
C13_OnlyValidatedContent ==
    csvData # NoData => \E f \in Files : PassedValidation(f) /\ csvData = f.content

\* The race: log a.csv was read, then b.csv was selected, and the analysis
\* ran on a.csv's content while b.csv's reader was still waiting.
C13_StaleAnalysis ==
    /\ lastCall.called
    /\ lastCall.data = LogA
    /\ lastCall.files = FileList(<<[name |-> "b.csv", content |-> LogB]>>)
    /\ readers["b.csv"] > 0

\* C14: once step 4 is reached and every reader has fired its onload, the
\* wizard has left "Calculating...": loading is false.
C14_LeavesCalculating ==
    (step = 4 /\ readers = NoReaders) => loading = FALSE

\* C14 as a temporal formula: step 4 leads to loading = false.
C14_EventuallyLoaded == (step = 4) ~> (loading = FALSE)

\* At step 4 with "Calculating..." on screen and no reader waiting, the
\* page has no button and no callback left: nothing can happen any more.
C14_CalculatingIsFinal ==
    (step = 4 /\ loading /\ readers = NoReaders) => ~ENABLED NextWizard

\* The way in: a file whose reader has not answered yet lets Next through,
\* and step 4 is entered with csvData still null.
C14_StuckWithoutData ==
    /\ step = 4
    /\ loading
    /\ csvData = NoData
    /\ readers = NoReaders
    /\ ~files.null

====
